---- MODULE Spec2Model ----
(***************************************************************************)
(* A model of graphene's bounding sphere (src/src/graphene-sphere.c).      *)
(*                                                                         *)
(* The sphere is a center (three floats) and a float radius.  Every C      *)
(* float is modelled as an IEEE-754 binary32 value m * 2^e, kept in        *)
(* canonical form (m odd, or m = 0 and e = 0), and every arithmetic step   *)
(* of the code rounds to Prec significant bits, to nearest, ties to even,  *)
(* as the hardware does.  Infinities, NaN and subnormals are out of the    *)
(* model: its inputs are small.                                            *)
(***************************************************************************)
EXTENDS Integers, Sequences, FiniteSets

(* ------------------------------------------------------------------ *)
(* binary32 arithmetic                                                 *)
(* ------------------------------------------------------------------ *)

\* FLT_MANT_DIG of <float.h>: the significand bits of a C float.
Prec == 24

Base == 2 ^ Prec

HalfBase == 2 ^ (Prec \div 2)

RECURSIVE BitLen(_)
BitLen(n) == IF n = 0 THEN 0 ELSE 1 + BitLen(n \div 2)

RECURSIVE Norm(_, _)
Norm(m, e) ==
  IF m = 0 THEN [m |-> 0, e |-> 0]
  ELSE IF m % 2 = 0 THEN Norm(m \div 2, e + 1)
  ELSE [m |-> m, e |-> e]

\* The float of a small integer literal.
F(k) == Norm(k, 0)

Abs(n) == IF n < 0 THEN -n ELSE n

Min2(a, b) == IF a < b THEN a ELSE b

FNeg(a) == [m |-> -a.m, e |-> a.e]

\* n * 2^e (n >= 0) rounded to Prec bits, to nearest, ties to even.
RoundNat(n, e) ==
  LET b == BitLen(n) IN
  IF b <= Prec THEN Norm(n, e)
  ELSE LET sh   == b - Prec
           q    == n \div (2 ^ sh)
           r    == n % (2 ^ sh)
           half == 2 ^ (sh - 1)
           up   == r > half \/ (r = half /\ q % 2 = 1)
       IN  Norm(IF up THEN q + 1 ELSE q, e + sh)

\* (hi * Base + lo) * 2^e rounded to Prec bits, to nearest, ties to even.
RoundWide(hi, lo, e) ==
  IF hi = 0 THEN RoundNat(lo, e)
  ELSE LET nb   == BitLen(hi)
           q    == hi * (2 ^ (Prec - nb)) + lo \div (2 ^ nb)
           r    == lo % (2 ^ nb)
           half == 2 ^ (nb - 1)
           up   == r > half \/ (r = half /\ q % 2 = 1)
       IN  Norm(IF up THEN q + 1 ELSE q, e + nb)

\* The exact product of two significands below Base, as <<hi, lo>> in base Base.
MulWide(a, b) ==
  LET a1  == a \div HalfBase
      a0  == a % HalfBase
      b1  == b \div HalfBase
      b0  == b % HalfBase
      mid == a1 * b0 + a0 * b1
      low == a0 * b0 + (mid % HalfBase) * HalfBase
  IN  << a1 * b1 + mid \div HalfBase + low \div Base, low % Base >>

WideLe(x, y) == x[1] < y[1] \/ (x[1] = y[1] /\ x[2] <= y[2])

WideLt(x, y) == x[1] < y[1] \/ (x[1] = y[1] /\ x[2] < y[2])

\* a + b in single precision.
FAdd(a, b) ==
  LET e == Min2(a.e, b.e)
      x == a.m * (2 ^ (a.e - e)) + b.m * (2 ^ (b.e - e))
  IN  IF x >= 0 THEN RoundNat(x, e) ELSE FNeg(RoundNat(-x, e))

\* a - b in single precision.
FSub(a, b) == FAdd(a, FNeg(b))

\* a * b in single precision.
FMul(a, b) ==
  LET w == MulWide(Abs(a.m), Abs(b.m))
      r == RoundWide(w[1], w[2], a.e + b.e)
  IN  IF (a.m < 0) = (b.m < 0) THEN r ELSE FNeg(r)

\* -1, 0, 1 as a < b, a = b, a > b.
FCmp(a, b) ==
  LET sa == IF a.m > 0 THEN 1 ELSE IF a.m < 0 THEN -1 ELSE 0
      sb == IF b.m > 0 THEN 1 ELSE IF b.m < 0 THEN -1 ELSE 0
      ta == BitLen(Abs(a.m)) + a.e
      tb == BitLen(Abs(b.m)) + b.e
      e  == Min2(a.e, b.e)
      xa == Abs(a.m) * (2 ^ (a.e - e))
      xb == Abs(b.m) * (2 ^ (b.e - e))
  IN  IF sa # sb THEN (IF sa < sb THEN -1 ELSE 1)
      ELSE IF sa = 0 THEN 0
      ELSE IF ta # tb THEN (IF ta < tb THEN -sa ELSE sa)
      ELSE IF xa = xb THEN 0
      ELSE IF xa < xb THEN -sa ELSE sa

FLe(a, b) == FCmp(a, b) <= 0

FLt(a, b) == FCmp(a, b) < 0

\* fmaxf of <math.h>.
fmaxf(a, b) == IF FLt(a, b) THEN b ELSE a

\* The largest f with f * f <= w, found bit by bit from the top.
RECURSIVE SqrtBits(_, _, _)
SqrtBits(f, bit, w) ==
  IF bit < 0 THEN f
  ELSE IF WideLe(MulWide(f + 2 ^ bit, f + 2 ^ bit), w)
  THEN SqrtBits(f + 2 ^ bit, bit - 1, w)
  ELSE SqrtBits(f, bit - 1, w)

\* The square root of a >= 0, correctly rounded, as IEEE-754 requires of sqrtf.
SqrtRounded(a) ==
  IF a.m = 0 THEN a
  ELSE LET k0 == 2 * Prec - BitLen(a.m)
           k  == IF (a.e - k0) % 2 = 0 THEN k0 ELSE k0 - 1
           w  == IF k >= Prec
                 THEN << a.m * (2 ^ (k - Prec)), 0 >>
                 ELSE << a.m \div (2 ^ (Prec - k)), (a.m % (2 ^ (Prec - k))) * (2 ^ k) >>
           f  == SqrtBits(0, Prec - 1, w)
           sq == MulWide(f, f)
           lo == sq[2] + f
           up == WideLt(<< sq[1] + lo \div Base, lo % Base >>, w)
       IN  Norm(IF up THEN f + 1 ELSE f, (a.e - k) \div 2)

\* The square roots of the small multiples of 1/4, computed once.
SqrtTable == [a \in {Norm(n, -2) : n \in 0..(2 ^ 8)} |-> SqrtRounded(a)]

\* sqrtf of <math.h>.
sqrtf(a) == IF a \in DOMAIN SqrtTable THEN SqrtTable[a] ELSE SqrtRounded(a)

(* ------------------------------------------------------------------ *)
(* The collaborators of the sphere: vec3, point3d, box.  A point        *)
(* pointer is NULL or the name of one of the caller's points; pt[p] is *)
(* the point it points to.                                             *)
(* ------------------------------------------------------------------ *)

NULL == "NULL"

P3(x, y, z) == [x |-> F(x), y |-> F(y), z |-> F(z)]

\* The caller's points, by name.
pt == [o |-> P3(0, 0, 0), p |-> P3(1, 1, 0), q |-> P3(1, 1, 1)]

graphene_vec3_init(x, y, z) == << x, y, z >>

graphene_vec3_zero == << F(0), F(0), F(0) >>

graphene_vec3_init_from_vec3(src) == src

graphene_vec3_add(a, b) == << FAdd(a[1], b[1]), FAdd(a[2], b[2]), FAdd(a[3], b[3]) >>

graphene_vec3_subtract(a, b) == << FSub(a[1], b[1]), FSub(a[2], b[2]), FSub(a[3], b[3]) >>

graphene_vec3_dot(a, b) ==
  FAdd(FAdd(FMul(a[1], b[1]), FMul(a[2], b[2])), FMul(a[3], b[3]))

graphene_vec3_scale(v, f) == << FMul(v[1], f), FMul(v[2], f), FMul(v[3], f) >>

\* Exact, lane by lane comparison of two vectors.
graphene_simd4f_cmp_eq(a, b) == a[1] = b[1] /\ a[2] = b[2] /\ a[3] = b[3]

graphene_point3d_init_from_vec3(v) == [x |-> v[1], y |-> v[2], z |-> v[3]]

graphene_box_init_from_vec3(min, max) == [min |-> min, max |-> max]

RECURSIVE BoxExpandPoints(_, _, _)
BoxExpandPoints(box, points, i) ==
  IF i > Len(points) THEN box
  ELSE LET v == graphene_vec3_init(pt[points[i]].x, pt[points[i]].y, pt[points[i]].z)
           lo(a, b) == IF FLt(b, a) THEN b ELSE a
           hi(a, b) == IF FLt(a, b) THEN b ELSE a
       IN  BoxExpandPoints(
             [min |-> << lo(box.min[1], v[1]), lo(box.min[2], v[2]), lo(box.min[3], v[3]) >>,
              max |-> << hi(box.max[1], v[1]), hi(box.max[2], v[2]), hi(box.max[3], v[3]) >>],
             points, i + 1)

\* The box of a point array; of no points, the box at the origin.
graphene_box_init_from_points(n_points, points) ==
  IF n_points = 0
  THEN graphene_box_init_from_vec3(graphene_vec3_zero, graphene_vec3_zero)
  ELSE LET v == graphene_vec3_init(pt[points[1]].x, pt[points[1]].y, pt[points[1]].z)
       IN  BoxExpandPoints(graphene_box_init_from_vec3(v, v), points, 2)

graphene_box_get_center(box) ==
  graphene_point3d_init_from_vec3(
    graphene_vec3_scale(graphene_vec3_add(box.min, box.max), Norm(1, -1)))

graphene_box_expand_scalar(box, scalar) ==
  LET s == graphene_vec3_init(scalar, scalar, scalar)
  IN  [min |-> graphene_vec3_subtract(box.min, s),
       max |-> graphene_vec3_add(box.max, s)]

(* ------------------------------------------------------------------ *)
(* graphene-sphere.c.  A sphere pointer is NULL or the name of a       *)
(* location of the memory m; m[s] is the sphere stored there.          *)
(* ------------------------------------------------------------------ *)

\* The content calloc gives a sphere.
graphene_sphere_alloc == [center |-> graphene_vec3_zero, radius |-> F(0)]

graphene_sphere_init(m, s, center, radius) ==
  [m EXCEPT ![s] =
     [center |-> IF center = NULL
                 THEN graphene_vec3_init_from_vec3(graphene_vec3_zero)
                 ELSE graphene_vec3_init(pt[center].x, pt[center].y, pt[center].z),
      radius |-> radius]]

distance_sq(p1, p2) ==
  LET delta == graphene_vec3_subtract(p1, p2)
  IN  graphene_vec3_dot(delta, delta)

\* The scan loop of graphene_sphere_init_from_points, from index i on.
RECURSIVE ScanPoints(_, _, _, _, _)
ScanPoints(c, n_points, points, i, max_radius_sq) ==
  IF i > n_points THEN max_radius_sq
  ELSE LET p == graphene_vec3_init(pt[points[i]].x, pt[points[i]].y, pt[points[i]].z)
       IN  ScanPoints(c, n_points, points, i + 1,
                      fmaxf(max_radius_sq, distance_sq(c, p)))

\* A faulty variant: with no points the radius is left as it was.
graphene_sphere_init_from_points_keeps_radius(m, s, n_points, points, center) ==
  LET c == IF center # NULL
           THEN graphene_vec3_init(pt[center].x, pt[center].y, pt[center].z)
           ELSE LET box == graphene_box_init_from_points(n_points, points)
                    bc  == graphene_box_get_center(box)
                IN  graphene_vec3_init(bc.x, bc.y, bc.z)
      max_radius_sq == ScanPoints(c, n_points, points, 1, F(0))
  IN  [m EXCEPT ![s] = [center |-> c,
                        radius |-> IF n_points = 0 THEN m[s].radius
                                   ELSE sqrtf(max_radius_sq)]]

\* A faulty variant: the squared radius is stored, the square root forgotten.
graphene_sphere_init_from_points_no_sqrt(m, s, n_points, points, center) ==
  LET c == IF center # NULL
           THEN graphene_vec3_init(pt[center].x, pt[center].y, pt[center].z)
           ELSE LET box == graphene_box_init_from_points(n_points, points)
                    bc  == graphene_box_get_center(box)
                IN  graphene_vec3_init(bc.x, bc.y, bc.z)
      max_radius_sq == ScanPoints(c, n_points, points, 1, F(0))
  IN  [m EXCEPT ![s] = [center |-> c, radius |-> max_radius_sq]]

graphene_sphere_init_from_points(m, s, n_points, points, center) ==
  LET c == IF center # NULL
           THEN graphene_vec3_init(pt[center].x, pt[center].y, pt[center].z)
           ELSE LET box == graphene_box_init_from_points(n_points, points)
                    bc  == graphene_box_get_center(box)
                IN  graphene_vec3_init(bc.x, bc.y, bc.z)
      max_radius_sq == ScanPoints(c, n_points, points, 1, F(0))
  IN  [m EXCEPT ![s] = [center |-> c, radius |-> sqrtf(max_radius_sq)]]

\* A faulty variant: a zero radius does not count as empty.
graphene_sphere_is_empty_strict(m, s) == s # NULL /\ FLt(m[s].radius, F(0))

graphene_sphere_is_empty(m, s) == s # NULL /\ FLe(m[s].radius, F(0))

\* A faulty variant: the boundary is excluded.
graphene_sphere_contains_point_strict(m, s, point) ==
  LET tmp       == graphene_vec3_init(pt[point].x, pt[point].y, pt[point].z)
      radius_sq == FMul(m[s].radius, m[s].radius)
  IN  IF FLt(distance_sq(m[s].center, tmp), radius_sq) THEN TRUE ELSE FALSE

graphene_sphere_contains_point(m, s, point) ==
  LET tmp       == graphene_vec3_init(pt[point].x, pt[point].y, pt[point].z)
      radius_sq == FMul(m[s].radius, m[s].radius)
  IN  IF FLe(distance_sq(m[s].center, tmp), radius_sq) THEN TRUE ELSE FALSE

\* A faulty variant: the operands of the subtraction are swapped.
graphene_sphere_distance_swapped(m, s, point) ==
  LET tmp == graphene_vec3_init(pt[point].x, pt[point].y, pt[point].z)
  IN  FSub(m[s].radius, sqrtf(distance_sq(m[s].center, tmp)))

graphene_sphere_distance(m, s, point) ==
  LET tmp == graphene_vec3_init(pt[point].x, pt[point].y, pt[point].z)
  IN  FSub(sqrtf(distance_sq(m[s].center, tmp)), m[s].radius)

\* A faulty variant: the box is expanded by the squared radius.
graphene_sphere_get_bounding_box_radius_sq(m, s) ==
  LET box == graphene_box_init_from_vec3(m[s].center, m[s].center)
  IN  graphene_box_expand_scalar(box, FMul(m[s].radius, m[s].radius))

graphene_sphere_get_bounding_box(m, s) ==
  LET box == graphene_box_init_from_vec3(m[s].center, m[s].center)
  IN  graphene_box_expand_scalar(box, m[s].radius)

\* Only the center of the result location is written.
graphene_sphere_translate(m, s, point, res) ==
  LET tmp == graphene_vec3_init(pt[point].x, pt[point].y, pt[point].z)
  IN  [m EXCEPT ![res].center = graphene_vec3_add(m[s].center, tmp)]

\* A faulty variant: the radii are not compared.
graphene_sphere_equal_centers_only(m, a, b) ==
  IF a = b THEN TRUE
  ELSE IF a = NULL \/ b = NULL THEN FALSE
  ELSE graphene_simd4f_cmp_eq(m[a].center, m[b].center)

graphene_sphere_equal(m, a, b) ==
  IF a = b THEN TRUE
  ELSE IF a = NULL \/ b = NULL THEN FALSE
  ELSE IF m[a].radius # m[b].radius THEN FALSE
  ELSE graphene_simd4f_cmp_eq(m[a].center, m[b].center)

(* ------------------------------------------------------------------ *)
(* The program: a caller that holds a sphere s and a result location   *)
(* res, calls one function of the API, reads what it returned, and     *)
(* calls the next.                                                     *)
(* ------------------------------------------------------------------ *)

\* The longest point array handed to graphene_sphere_init_from_points.
MaxPoints == 2

\* The caller translates no center past this coordinate.
MaxCoord == 1

Slots == {"s", "res"}

Refs == Slots \cup {NULL}

Points == DOMAIN pt

Radii == {F(-1), F(0), F(1), F(2)}

\* What a location that was never initialized may hold: calloc's zeroes, or
\* whatever the stack held.
Indeterminate == {graphene_sphere_alloc,
                  [center |-> graphene_vec3_init(F(1), F(0), F(0)), radius |-> F(3)]}

PointArrays == UNION {[1..n -> Points] : n \in 0..MaxPoints}

InRange(v) == \A i \in 1..3 : FLe(FNeg(F(MaxCoord)), v[i]) /\ FLe(v[i], F(MaxCoord))

VARIABLES mem, call

vars == << mem, call >>

Idle == call.op = "none"

Init ==
  /\ mem \in [Slots -> Indeterminate]
  /\ call = [op |-> "none"]

SphereInit ==
  \E center \in Points \cup {NULL}, radius \in Radii :
    /\ Idle
    /\ mem' = graphene_sphere_init(mem, "s", center, radius)
    /\ call' = [op |-> "init", s |-> "s", center |-> center, radius |-> radius]

SphereInitFromPoints ==
  \E points \in PointArrays, center \in Points \cup {NULL} :
    /\ Idle
    /\ mem' = graphene_sphere_init_from_points(mem, "s", Len(points), points, center)
    /\ call' = [op |-> "init_from_points", s |-> "s", n_points |-> Len(points),
                points |-> points, center |-> center]

SphereIsEmpty ==
  \E s \in Refs :
    /\ Idle
    /\ call' = [op |-> "is_empty", s |-> s, ret |-> graphene_sphere_is_empty(mem, s)]
    /\ UNCHANGED mem

SphereContainsPoint ==
  \E s \in Slots, point \in Points :
    /\ Idle
    /\ call' = [op |-> "contains_point", s |-> s, point |-> point,
                ret |-> graphene_sphere_contains_point(mem, s, point)]
    /\ UNCHANGED mem

SphereDistance ==
  \E s \in Slots, point \in Points :
    /\ Idle
    /\ call' = [op |-> "distance", s |-> s, point |-> point,
                ret |-> graphene_sphere_distance(mem, s, point)]
    /\ UNCHANGED mem

SphereGetBoundingBox ==
  \E s \in Slots :
    /\ Idle
    /\ call' = [op |-> "get_bounding_box", s |-> s,
                box |-> graphene_sphere_get_bounding_box(mem, s)]
    /\ UNCHANGED mem

\* The sphere s is translated in place or into the result location.
SphereTranslate ==
  \E point \in Points, res \in Slots :
    /\ Idle
    /\ InRange(graphene_sphere_translate(mem, "s", point, res)[res].center)
    /\ mem' = graphene_sphere_translate(mem, "s", point, res)
    /\ call' = [op |-> "translate", s |-> "s", point |-> point, res |-> res,
                pre |-> mem["s"]]

SphereEqual ==
  \E a \in Refs, b \in Refs :
    /\ Idle
    /\ call' = [op |-> "equal", a |-> a, b |-> b, ret |-> graphene_sphere_equal(mem, a, b)]
    /\ UNCHANGED mem

\* The caller has read the result and is ready for its next call.
Return ==
  /\ ~Idle
  /\ call' = [op |-> "none"]
  /\ UNCHANGED mem

Next ==
  \/ SphereInit
  \/ SphereInitFromPoints
  \/ SphereIsEmpty
  \/ SphereContainsPoint
  \/ SphereDistance
  \/ SphereGetBoundingBox
  \/ SphereTranslate
  \/ SphereEqual
  \/ Return

Spec == Init /\ [][Next]_vars

(* ------------------------------------------------------------------ *)
(* Exact arithmetic for the statements below: coordinates of the model *)
(* are multiples of 1/2, so twice a coordinate is an integer.          *)
(* ------------------------------------------------------------------ *)

OnGrid(f) == f.e >= -1

Twice(f) == f.m * (2 ^ (f.e + 1))

Quarter(n) == Norm(n, -2)

Coords(point) == << pt[point].x, pt[point].y, pt[point].z >>

Sq(n) == n * n

\* Four times the squared distance of two grid vectors.
SqDist4(a, b) ==
  Sq(Twice(a[1]) - Twice(b[1])) + Sq(Twice(a[2]) - Twice(b[2])) + Sq(Twice(a[3]) - Twice(b[3]))

MaxOf(S) == CHOOSE x \in S : \A y \in S : y <= x

MinOf(S) == CHOOSE x \in S : \A y \in S : x <= y

BoxContains(box, v) == \A i \in 1..3 : FLe(box.min[i], v[i]) /\ FLe(v[i], box.max[i])

\* The center the claims expect of a sphere built from points.
ExpectedCenter(points, center) ==
  IF center # NULL THEN Coords(center)
  ELSE IF Len(points) = 0 THEN << F(0), F(0), F(0) >>
  ELSE [i \in 1..3 |->
          LET T == {Twice(Coords(points[k])[i]) : k \in 1..Len(points)}
          IN  Quarter(MinOf(T) + MaxOf(T))]

\* Four times the largest squared distance from c to a point of the array.
MaxSqDist4(c, points) ==
  MaxOf({0} \cup {SqDist4(c, Coords(points[k])) : k \in 1..Len(points)})

(* ------------------------------------------------------------------ *)
(* The claims                                                          *)
(* ------------------------------------------------------------------ *)

\* C1: after translate(S, offset) the result sphere has center S.center + offset
\* and radius S.radius, whatever the result location held before, and S is
\* unchanged when the result location is another location.
C1_TranslateCenterRadiusFrame ==
  call.op = "translate" =>
    /\ \A i \in 1..3 :
         Twice(mem[call.res].center[i])
           = Twice(call.pre.center[i]) + Twice(Coords(call.point)[i])
    /\ mem[call.res].radius = call.pre.radius
    /\ (call.res # call.s => mem[call.s] = call.pre)

\* C2 as stated: isEmpty is true iff the radius is <= 0, and isEmpty(null) is true.
C2_IsEmptyNullIsEmpty ==
  call.op = "is_empty" =>
    call.ret = (call.s = NULL \/ mem[call.s].radius.m <= 0)

\* C2, amended: isEmpty is true iff the sphere reference is present and its
\* radius is <= 0; isEmpty(null) is false.
C2_IsEmptyNullIsNotEmpty ==
  call.op = "is_empty" =>
    call.ret = (call.s # NULL /\ mem[call.s].radius.m <= 0)

C2_Witness ==
  /\ call.op = "is_empty"
  /\ call.s = NULL
  /\ call.ret = FALSE

\* C3: the sphere built by initFromPoints from a non-empty array contains every
\* point of the array, with or without an explicit center.
C3_PointsCovered ==
  (call.op = "init_from_points" /\ call.n_points > 0) =>
    \A i \in 1..call.n_points :
      graphene_sphere_contains_point(mem, "s", call.points[i])

\* C4: translate commutes with containment: the sphere translated by d into a
\* fresh result location contains p iff S contains p - d.
C4_TranslateCommutesContains ==
  (call.op = "translate" /\ call.res # call.s) =>
    \A x \in Points, y \in Points :
      (\A i \in 1..3 :
         Twice(Coords(x)[i]) = Twice(Coords(y)[i]) - Twice(Coords(call.point)[i]))
      => graphene_sphere_contains_point(mem, call.res, y)
           = graphene_sphere_contains_point(mem, call.s, x)

\* The box of the call is [center - radius, center + radius] on every axis.
BoxIsCenterPlusMinusRadius ==
  \A i \in 1..3 :
    /\ call.box.min[i] = FSub(mem[call.s].center[i], mem[call.s].radius)
    /\ call.box.max[i] = FAdd(mem[call.s].center[i], mem[call.s].radius)

\* The box of the call contains every point the sphere contains.
BoxCoversSphere ==
  \A p \in Points :
    graphene_sphere_contains_point(mem, call.s, p) => BoxContains(call.box, Coords(p))

C7_ContainsPointInclusive ==
  call.op = "contains_point" =>
    LET r  == mem[call.s].radius
        d4 == SqDist4(mem[call.s].center, Coords(call.point))
    IN  /\ call.ret = FLe(Quarter(d4), FMul(r, r))
        /\ ((OnGrid(r) /\ r.m >= 0 /\ Sq(Twice(r)) = d4) => call.ret = TRUE)
        /\ (FLt(FMul(r, r), Quarter(d4)) => call.ret = FALSE)

C7_Witness ==
  /\ call.op = "contains_point"
  /\ mem[call.s].radius.m > 0
  /\ OnGrid(mem[call.s].radius)
  /\ Sq(Twice(mem[call.s].radius)) = SqDist4(mem[call.s].center, Coords(call.point))
  /\ call.ret = TRUE

\* C8: distanceToPoint is sqrt(squared distance) - radius; it is < 0 iff the
\* point is contained and strictly interior, 0 iff the distance equals the
\* radius, and > 0 otherwise.
C8_DistanceSign ==
  call.op = "distance" =>
    LET r      == mem[call.s].radius
        d      == sqrtf(Quarter(SqDist4(mem[call.s].center, Coords(call.point))))
        inside == graphene_sphere_contains_point(mem, call.s, call.point)
    IN  /\ call.ret = FSub(d, r)
        /\ (call.ret.m < 0) = (inside /\ FLt(d, r))
        /\ (call.ret.m = 0) = (d = r)
        /\ (call.ret.m > 0) = (~(inside /\ FLt(d, r)) /\ d # r)

C8_Witness ==
  /\ call.op = "distance"
  /\ call.ret.m < 0
  /\ SqDist4(mem[call.s].center, Coords(call.point)) > 0

C10_InitFromPointsDetermined ==
  call.op = "init_from_points" =>
    LET c == ExpectedCenter(call.points, call.center) IN
    /\ mem["s"].center = c
    /\ mem["s"].radius = sqrtf(Quarter(MaxSqDist4(c, call.points)))
    /\ mem["s"].radius.m >= 0
    /\ (call.n_points > 0 =>
          \E k \in 1..call.n_points :
            sqrtf(Quarter(SqDist4(c, Coords(call.points[k])))) = mem["s"].radius)

C10_Witness ==
  /\ call.op = "init_from_points"
  /\ call.n_points > 1
  /\ call.center = NULL
  /\ mem["s"].radius.m > 0
  /\ ~OnGrid(mem["s"].radius)

====
